---- MODULE Spec2Model ----
(***************************************************************************)
(* Verification model of the code-doc-assistant backend.                   *)
(*                                                                         *)
(* The subsystems are modelled over one set of variables:                  *)
(*   - ingestion: POST /codebase/upload, the Temporal IngestionWorkflow    *)
(*     with its activities, the ChromaDB vector store, the Codebase row    *)
(*     and DELETE /codebase/{id}            (specification Spec);          *)
(*   - sessions: the Redis session store as used by POST /chat and by      *)
(*     DELETE /codebase/{id}  (SpecSession, SpecChat, SpecFrame,           *)
(*     SpecDelete), and its cleanup run     (SpecCleanup);                 *)
(*   - retrieval, secret redaction, session history and the concurrent     *)
(*     query limiter (SpecRetrieval, SpecSecrets, SpecHistory,             *)
(*     SpecLimiter).                                                       *)
(*                                                                         *)
(* Every await of the Python code is a step boundary: one action is the    *)
(* code that runs between two awaits, or one Redis MULTI/EXEC pipeline, or *)
(* one database transaction of an activity.                                *)
(***************************************************************************)
EXTENDS Integers, Sequences, FiniteSets, TLC

\* ------------------------------------------------------------------------
\* Bounds of the model
\* ------------------------------------------------------------------------
\* how many activity attempts the environment lets fail or time out in a run
MaxFaults == 3
\* how many timed-out activity attempts may still be executing at once
MaxStale == 1
\* sessions that can be created per codebase, and chat requests
MaxSessions == 1
MaxChats == 2
\* DELETE requests the client issues for Target, one after the other
MaxDeletes == 2

\* ------------------------------------------------------------------------
\* Values
\* ------------------------------------------------------------------------
\* Python None: for strings, for integers, for a missing row
None == "None"
NoInt == -1
NoRow == [status |-> "NoRow"]
\* CodeChunk.embedding is None: no vector
NoEmbedding == <<>>

\* the codebase created by the upload request, and one other codebase id
Target == "c1"
CodebaseIds == {"c1", "c2"}

\* entries an uploaded archive or a cloned repository may hold
ArchiveEntries == {"a.py", "notes.txt"}

\* CodeParser.detect_language: by file extension only
detect_language(f) == IF f = "a.py" THEN "python" ELSE None

\* chunk contents the chunker emits for a file (one function chunk per file)
chunk_parsed_code(f) == {<<f, 1>>}

Statuses == {"queued", "processing", "completed", "failed"}

\* a session id is a uuid4; the model labels it with the codebase it is
\* created for and a serial number
SessionIds == CodebaseIds \X (1..MaxSessions)
ChatIds == 1..MaxChats
\* a Redis key that does not exist; no session id
NoKey == [key |-> "absent"]
NoSessionId == <<"None", 0>>

VARIABLES
    input,      \* the upload request: [source_type, entries]
    upPc,       \* position of upload_codebase
    upRow,      \* the Codebase row inside upload's uncommitted transaction
    blob,       \* TRUE iff the archive file of Target exists in storage
    row,        \* the committed Codebase row of Target, or NoRow
    wfPc,       \* position of IngestionWorkflow.run
    wfStatus,   \* IngestionWorkflow._current_status
    wfLocals,   \* locals of run: files, files_total, files_processed, chunks_count
    wfLog,      \* the stage activities scheduled so far (workflow history)
    act,        \* current attempt of the awaited activity: [attempt, done]
    stale,      \* timed-out attempts that are still executing
    faults,     \* number of failed or timed-out attempts so far
    cancelReq,  \* a cancel request for the workflow is pending
    vec,        \* the ChromaDB collection: set of stored chunks
    nextId,     \* source of fresh chunk ids (uuid4)
    delPc,      \* position of delete_codebase
    delSnap,    \* the Codebase object delete_codebase loaded
    delIds,     \* ids returned by collection.get in VectorStore.delete_codebase
    delSess,    \* session ids of the smembers snapshot still to be deleted
    delCur,     \* the session delete_session loaded, or None
    delLog,     \* the answers of the earlier delete requests for Target
    hash,       \* Redis hashes session:<id>
    msgs,       \* Redis lists session:<id>:messages, newest first
    msgsTtl,    \* TRUE iff the list session:<id>:messages carries a TTL
    index,      \* Redis sets codebase:<id>:sessions
    chat,       \* the chat requests: [pc, codebase_id, session_id, events],
                \* events = the types of the SSE events sent so far
    retr,       \* the last vector-store retrieval: what was dispatched to
                \* the collection, how the call ended and what it returned
    proc,       \* one file of the archive on its way through parse_codebase
                \* and scan_for_secrets_activity: [content, pc, stored,
                \* detected, reported]
    hist,       \* the history of the session on its way to the LLM: [pc,
                \* limit, returned, session_history, messages]
    cleanup,    \* cleanup_expired_sessions: position, keys and members still
                \* to visit, count, and what the finished runs returned
    rowOther,   \* the committed Codebase row of the other codebase, or NoRow
    lim         \* the ConcurrentQueryLimiter: semaphore value, active_count,
                \* the tasks waiting in acquire and the calls made so far

ingestVars == <<input, upPc, upRow, blob, row, wfPc, wfStatus, wfLocals, wfLog,
                act, stale, faults, cancelReq, vec, nextId>>
delVars == <<delPc, delSnap, delIds, delSess, delCur, delLog>>
redisVars == <<hash, msgs, msgsTtl, index>>
vars == <<ingestVars, delVars, redisVars, chat, retr, proc, hist,
          cleanup, rowOther, lim>>

\* ------------------------------------------------------------------------
\* Codebase row (models/db/codebase.py) and repository
\* ------------------------------------------------------------------------
\* CodebaseRepository.create: status QUEUED, counters default 0
create(workflow_id) ==
    [status |-> "queued", processed_files |-> 0, total_files |-> 0,
     error_message |-> None, workflow_id |-> workflow_id, storage_path |-> None]

\* CodebaseRepository.update_status on a loaded row: every argument that is
\* not None overwrites the field, without looking at the current status
update_status(r, status, processed_files, total_files, error_message) ==
    [r EXCEPT
        !.status = IF status # None THEN status ELSE @,
        !.processed_files = IF processed_files # NoInt THEN processed_files ELSE @,
        !.total_files = IF total_files # NoInt THEN total_files ELSE @,
        !.error_message = IF error_message # None THEN error_message ELSE @]

\* update_codebase_status_activity: one transaction; the row is looked up and,
\* when it is not found (not committed yet, or deleted), nothing is written
update_codebase_status_activity(r, status, processed_files, total_files, error) ==
    IF status \notin Statuses THEN r
    ELSE IF r = NoRow THEN r
    ELSE IF processed_files # NoInt \/ total_files # NoInt
         THEN update_status(r, status, processed_files, total_files, error)
         ELSE update_status(r, status, NoInt, NoInt, error)

\* ------------------------------------------------------------------------
\* IngestionWorkflow.run
\* ------------------------------------------------------------------------
\* positions: "u_*" await the status-update activity of one _update_status
\* call, the others await a stage activity
UpdatePcs == {"u_init", "u_validating", "u_extracting", "u_parsing", "u_parsed",
              "u_scanning", "u_scanned", "u_completed", "u_failed"}
StagePcs == {"validate_codebase", "clone_or_extract", "parse_codebase",
             "scan_for_secrets_activity"}
EndPcs == {"completed", "failed", "aborted"}
AwaitPcs == UpdatePcs \cup StagePcs

\* run with the secret scan moved in front of the parse stage
NextStep_ScanBeforeParse(pc) ==
    CASE pc = "u_init" -> "u_validating"
      [] pc = "u_validating" -> "validate_codebase"
      [] pc = "validate_codebase" -> "u_extracting"
      [] pc = "u_extracting" -> "clone_or_extract"
      [] pc = "clone_or_extract" -> "u_scanning"
      [] pc = "u_scanning" -> "scan_for_secrets_activity"
      [] pc = "scan_for_secrets_activity" -> "u_parsing"
      [] pc = "u_parsing" -> "parse_codebase"
      [] pc = "parse_codebase" -> "u_parsed"
      [] pc = "u_parsed" -> "u_scanned"
      [] pc = "u_scanned" -> "u_completed"
      [] pc = "u_completed" -> "completed"
      [] pc = "u_failed" -> "failed"

\* the statement that follows each await on the success path
NextStep(pc) ==
    CASE pc = "u_init" -> "u_validating"
      [] pc = "u_validating" -> "validate_codebase"
      [] pc = "validate_codebase" -> "u_extracting"
      [] pc = "u_extracting" -> "clone_or_extract"
      [] pc = "clone_or_extract" -> "u_parsing"
      [] pc = "u_parsing" -> "parse_codebase"
      [] pc = "parse_codebase" -> "u_parsed"
      [] pc = "u_parsed" -> "u_scanning"
      [] pc = "u_scanning" -> "scan_for_secrets_activity"
      [] pc = "scan_for_secrets_activity" -> "u_scanned"
      [] pc = "u_scanned" -> "u_completed"
      [] pc = "u_completed" -> "completed"
      [] pc = "u_failed" -> "failed"

\* the awaits covered by the try block of run (line 63 is before it, the
\* _update_status of the except branch is after it)
InTry(pc) == pc \in AwaitPcs \ {"u_init", "u_failed"}

\* every execute_activity call without a maximum_attempts
maximum_attempts_NoPolicy(pc) == 0

\* retry_policy of each execute_activity call: maximum_attempts, 0 = unlimited
\* (no retry_policy argument: the runtime's default policy, unlimited)
maximum_attempts(pc) ==
    IF pc \in {"clone_or_extract", "parse_codebase", "scan_for_secrets_activity"}
    THEN 3 ELSE 0

\* _update_status: the DB status sent for a workflow step
db_status(step) ==
    CASE step = "completed" -> "completed"
      [] step = "failed" -> "failed"
      [] step = "initializing" -> "queued"
      [] OTHER -> "processing"

\* IngestionWorkflow.__init__
InitialStatus ==
    [step |-> "initializing", progress |-> 0, files_processed |-> 0,
     files_total |-> 0, chunks_created |-> 0, error |-> None]

InitialLocals ==
    [files |-> {}, files_total |-> 0, files_processed |-> 0, chunks_count |-> 0]

\* the _current_status written by the _update_status call at position pc
\* (progress in percent)
StatusAt(pc, l, cur, err) ==
    CASE pc = "u_init" ->
            [step |-> "validating", progress |-> 5, files_processed |-> 0,
             files_total |-> 0, chunks_created |-> 0, error |-> None]
      [] pc = "u_validating" ->
            [step |-> "validating", progress |-> 10, files_processed |-> 0,
             files_total |-> 0, chunks_created |-> 0, error |-> None]
      [] pc = "u_extracting" ->
            [step |-> "extracting", progress |-> 15, files_processed |-> 0,
             files_total |-> 0, chunks_created |-> 0, error |-> None]
      [] pc = "u_parsing" ->
            [step |-> "parsing", progress |-> 35, files_processed |-> 0,
             files_total |-> l.files_total, chunks_created |-> 0, error |-> None]
      [] pc = "u_parsed" ->
            [step |-> "parsing", progress |-> 50,
             files_processed |-> l.files_processed,
             files_total |-> l.files_total,
             chunks_created |-> l.chunks_count, error |-> None]
      [] pc = "u_scanning" ->
            [step |-> "scanning_secrets", progress |-> 50,
             files_processed |-> l.files_processed,
             files_total |-> l.files_total,
             chunks_created |-> l.chunks_count, error |-> None]
      [] pc = "u_scanned" ->
            [step |-> "scanning_secrets", progress |-> 60,
             files_processed |-> l.files_processed,
             files_total |-> l.files_total,
             chunks_created |-> l.chunks_count, error |-> None]
      [] pc = "u_completed" ->
            [step |-> "completed", progress |-> 100,
             files_processed |-> l.files_processed,
             files_total |-> l.files_total,
             chunks_created |-> l.chunks_count, error |-> None]
      [] pc = "u_failed" ->
            [cur EXCEPT !.step = "failed", !.error = err]
      [] OTHER -> cur

\* _update_status that passes files_total and files_processed the other way
\* round
UpdateArgs_CountersSwapped(st) ==
    [status |-> db_status(st.step), processed_files |-> st.files_total,
     total_files |-> st.files_processed, error |-> st.error]

\* arguments of the update_codebase_status_activity call of _update_status
UpdateArgs(st) ==
    [status |-> db_status(st.step), processed_files |-> st.files_processed,
     total_files |-> st.files_total, error |-> st.error]

FreshAttempt == [attempt |-> 1, done |-> FALSE]

\* ------------------------------------------------------------------------
\* POST /codebase/upload (upload_codebase); its database session commits
\* after the handler has returned and rolls back when the handler raises
\* ------------------------------------------------------------------------
\* repo.create: INSERT flushed inside the request's transaction
UploadCreate ==
    /\ upPc = "idle"
    /\ upRow' = create("")
    /\ upPc' = IF input.source_type = "zip" THEN "created" ELSE "saved"
    /\ UNCHANGED <<lim, rowOther, cleanup, hist, proc, retr, input, blob, row, wfPc, wfStatus, wfLocals, wfLog,
                   act, stale,
                   faults, cancelReq, vec, nextId, delVars, redisVars, chat>>

\* codebase_processor.save_file writes <storage>/<codebase_id>.zip
UploadSaveFile ==
    /\ upPc = "created"
    /\ blob' = TRUE
    /\ upPc' = "saved"
    /\ UNCHANGED <<lim, rowOther, cleanup, hist, proc, retr, input, upRow, row, wfPc, wfStatus, wfLocals, wfLog,
                   act, stale,
                   faults, cancelReq, vec, nextId, delVars, redisVars, chat>>

\* client.start_workflow succeeds: the workflow run begins at line 62-63
UploadStartWorkflow ==
    /\ upPc = "saved"
    /\ upPc' = "started"
    /\ wfPc' = "u_init"
    /\ wfStatus' = StatusAt("u_init", InitialLocals, InitialStatus, None)
    /\ wfLocals' = InitialLocals
    /\ act' = FreshAttempt
    /\ UNCHANGED <<lim, rowOther, cleanup, hist, proc, retr, input, upRow, blob, row, wfLog, stale, faults,
                   cancelReq, vec,
                   nextId, delVars, redisVars, chat>>

\* get_temporal_client or start_workflow raises: the except branch marks the
\* row FAILED and raises HTTPException 500
UploadStartFail ==
    /\ upPc = "saved"
    /\ upRow' = update_status(upRow, "failed", NoInt, NoInt, "start_failed")
    /\ upPc' = "raising"
    /\ UNCHANGED <<lim, rowOther, cleanup, hist, proc, retr, input, blob, row, wfPc, wfStatus, wfLocals, wfLog,
                   act, stale,
                   faults, cancelReq, vec, nextId, delVars, redisVars, chat>>

\* repo.update_workflow_id, then the handler returns 202
UploadSetWorkflowId ==
    /\ upPc = "started"
    /\ upRow' = [upRow EXCEPT !.workflow_id = "ingestion-c1"]
    /\ upPc' = "returned"
    /\ UNCHANGED <<lim, rowOther, cleanup, hist, proc, retr, input, blob, row, wfPc, wfStatus, wfLocals, wfLog,
                   act, stale,
                   faults, cancelReq, vec, nextId, delVars, redisVars, chat>>

\* repo.update_workflow_id raises after the workflow was started
UploadSetWorkflowIdFail ==
    /\ upPc = "started"
    /\ upRow' = update_status(upRow, "failed", NoInt, NoInt, "start_failed")
    /\ upPc' = "raising"
    /\ UNCHANGED <<lim, rowOther, cleanup, hist, proc, retr, input, blob, row, wfPc, wfStatus, wfLocals, wfLog,
                   act, stale,
                   faults, cancelReq, vec, nextId, delVars, redisVars, chat>>

\* get_db after the yield: session.commit() makes the row visible
UploadCommit ==
    /\ upPc = "returned"
    /\ row' = upRow
    /\ upPc' = "committed"
    /\ UNCHANGED <<lim, rowOther, cleanup, hist, proc, retr, input, upRow, blob, wfPc, wfStatus, wfLocals, wfLog,
                   act, stale,
                   faults, cancelReq, vec, nextId, delVars, redisVars, chat>>

\* get_db on an exception: session.rollback() discards the inserted row
UploadRollback ==
    /\ upPc = "raising"
    /\ upRow' = NoRow
    /\ upPc' = "rolled_back"
    /\ UNCHANGED <<lim, rowOther, cleanup, hist, proc, retr, input, blob, row, wfPc, wfStatus, wfLocals, wfLog,
                   act, stale,
                   faults, cancelReq, vec, nextId, delVars, redisVars, chat>>

\* ------------------------------------------------------------------------
\* Activities
\* ------------------------------------------------------------------------
\* validate_codebase raises for a ZIP without entries and for a source that is
\* neither a ZIP with data nor a URL
validate_codebase(in) ==
    IF in.source_type = "zip" THEN in.entries # {}
    ELSE in.source_type = "github_url"

\* clone_or_extract: the decoded files of the archive or repository
clone_or_extract(in) == in.entries

\* CodebaseProcessor.process_codebase: supported files are parsed and chunked,
\* every chunk gets a fresh uuid4 and embedding=None
supported_files(files) == {f \in files : detect_language(f) # None}

all_chunks(files) == UNION {chunk_parsed_code(f) : f \in supported_files(files)}

\* the CodeChunk objects built for codebase c with ids first, first+1, ...
RECURSIVE CodeChunks(_, _, _)
CodeChunks(c, contents, first) ==
    IF contents = {} THEN {}
    ELSE LET x == CHOOSE y \in contents : TRUE
         IN {[id |-> first, codebase_id |-> c, content |-> x,
              embedding |-> NoEmbedding]}
            \cup CodeChunks(c, contents \ {x}, first + 1)

\* the embedding function of the collection: the vector of a document
JinaEmbeddingFunction(document) == <<document>>

\* add_chunks that stores the embedding attribute of each chunk as its vector
add_chunks_StoresChunkEmbedding(store, chunks) ==
    IF chunks = {} THEN store ELSE store \cup chunks

\* VectorStore.add_chunks: an empty batch is ignored, otherwise the ids,
\* documents and metadatas of all chunks are passed to collection.add, which
\* embeds every document with the embedding function of the collection; the
\* embedding attribute of the chunks is not looked at
add_chunks(store, chunks) ==
    IF chunks = {} THEN store
    ELSE store \cup {[id |-> ch.id, codebase_id |-> ch.codebase_id,
                      content |-> ch.content,
                      embedding |-> JinaEmbeddingFunction(ch.content)] : ch \in chunks}

\* the side effect of one attempt of the activity awaited at pc on the
\* vector store and on the row
ActVec(pc, files) ==
    IF pc = "parse_codebase" /\ all_chunks(files) # {}
    THEN add_chunks(vec, CodeChunks(Target, all_chunks(files), nextId))
    ELSE vec

ActNextId(pc, files) ==
    IF pc = "parse_codebase"
    THEN nextId + Cardinality(all_chunks(files)) ELSE nextId

ActRow(isUpdate, args) ==
    IF isUpdate
    THEN update_codebase_status_activity(row, args.status, args.processed_files,
                                         args.total_files, args.error)
    ELSE row

\* an UPDATE of the row waits while delete_codebase holds the row lock of its
\* flushed, uncommitted DELETE
RowLocked == delPc = "flushed"

\* one attempt executes the activity body
ActRun ==
    /\ wfPc \in AwaitPcs
    /\ ~act.done
    /\ wfPc = "validate_codebase" => validate_codebase(input)
    /\ wfPc \in UpdatePcs => ~RowLocked
    /\ act' = [act EXCEPT !.done = TRUE]
    /\ vec' = ActVec(wfPc, wfLocals.files)
    /\ nextId' = ActNextId(wfPc, wfLocals.files)
    /\ row' = ActRow(wfPc \in UpdatePcs, UpdateArgs(wfStatus))
    /\ UNCHANGED <<lim, rowOther, cleanup, hist, proc, retr, input, upPc, upRow, blob, wfPc, wfStatus, wfLocals,
                   wfLog, stale,
                   faults, cancelReq, delVars, redisVars, chat>>

\* locals of run after the activity awaited at pc has returned
LocalsAfter(pc, l) ==
    CASE pc = "clone_or_extract" ->
            [l EXCEPT !.files = clone_or_extract(input),
                      !.files_total = Cardinality(clone_or_extract(input))]
      [] pc = "parse_codebase" ->
            [l EXCEPT !.files_processed = Cardinality(supported_files(l.files)),
                      !.chunks_count = Cardinality(all_chunks(l.files))]
      [] OTHER -> l

\* the workflow moves to position pc with locals l; an _update_status call
\* writes _current_status before it awaits the activity
Goto(pc, l, err) ==
    /\ wfPc' = pc
    /\ wfLocals' = l
    /\ wfStatus' = StatusAt(pc, l, wfStatus, err)
    /\ wfLog' = IF pc \in StagePcs THEN Append(wfLog, pc) ELSE wfLog
    /\ act' = FreshAttempt

\* the result of the attempt reaches the workflow, run continues
ActComplete ==
    /\ wfPc \in AwaitPcs
    /\ act.done
    /\ Goto(NextStep(wfPc), LocalsAfter(wfPc, wfLocals), None)
    /\ UNCHANGED <<lim, rowOther, cleanup, hist, proc, retr, input, upPc, upRow, blob, row, stale, faults,
                   cancelReq, vec,
                   nextId, delVars, redisVars, chat>>

\* execute_activity raises in run: inside the try block the except branch
\* calls _update_status("failed", ...), outside it the exception ends the run
Raise(err) ==
    IF InTry(wfPc) THEN Goto("u_failed", wfLocals, err)
    ELSE /\ wfPc' = "aborted"
         /\ act' = FreshAttempt
         /\ UNCHANGED <<wfLocals, wfStatus, wfLog>>

\* the attempt failed: retried while the retry policy allows it
RetryOrRaise ==
    IF maximum_attempts(wfPc) = 0 \/ act.attempt < maximum_attempts(wfPc)
    THEN /\ act' = [attempt |-> act.attempt + 1, done |-> FALSE]
         /\ UNCHANGED <<wfPc, wfLocals, wfStatus, wfLog>>
    ELSE Raise("activity_failed")

\* an attempt fails: the activity raises, or the worker dies before the
\* result of a finished attempt is recorded
ActFail ==
    /\ wfPc \in AwaitPcs
    /\ faults < MaxFaults
    /\ faults' = faults + 1
    /\ RetryOrRaise
    /\ UNCHANGED <<lim, rowOther, cleanup, hist, proc, retr, input, upPc, upRow, blob, row, stale, cancelReq, vec,
                   nextId,
                   delVars, redisVars, chat>>

\* what an attempt that is still executing will do when it gets there
Pending(pc) ==
    IF pc \in UpdatePcs
    THEN [kind |-> "update", args |-> UpdateArgs(wfStatus), files |-> {}]
    ELSE [kind |-> "parse", args |-> UpdateArgs(InitialStatus), files |-> wfLocals.files]

\* an attempt exceeds start_to_close_timeout: the runtime gives it up and
\* applies the retry policy, the activity function itself keeps running
ActTimeout ==
    /\ wfPc \in UpdatePcs \cup {"parse_codebase"}
    /\ ~act.done
    /\ faults < MaxFaults
    /\ Cardinality(stale) < MaxStale
    /\ faults' = faults + 1
    /\ stale' = stale \cup {Pending(wfPc)}
    /\ RetryOrRaise
    /\ UNCHANGED <<lim, rowOther, cleanup, hist, proc, retr, input, upPc, upRow, blob, row, cancelReq, vec, nextId,
                   delVars, redisVars, chat>>

\* a given-up attempt executes its body
StaleRun ==
    \E e \in stale :
        /\ e.kind = "update" => ~RowLocked
        /\ stale' = stale \ {e}
        /\ vec' = IF e.kind = "parse" THEN ActVec("parse_codebase", e.files) ELSE vec
        /\ nextId' = IF e.kind = "parse"
                     THEN ActNextId("parse_codebase", e.files) ELSE nextId
        /\ row' = ActRow(e.kind = "update", e.args)
        /\ UNCHANGED <<lim, rowOther, cleanup, hist, proc, retr, input, upPc, upRow, blob, wfPc, wfStatus,
                       wfLocals, wfLog,
                       act, faults, cancelReq, delVars, redisVars, chat>>

\* the cancel request reaches the run: the awaited execute_activity raises
\* (cancellation type TRY_CANCEL); an attempt that has not finished is either
\* never started or goes on executing
WfCancel ==
    /\ cancelReq
    /\ cancelReq' = FALSE
    /\ IF wfPc \in AwaitPcs
       THEN /\ Raise("cancelled")
            /\ \/ stale' = stale
               \/ /\ wfPc \in UpdatePcs \cup {"parse_codebase"}
                  /\ ~act.done
                  /\ Cardinality(stale) < MaxStale
                  /\ stale' = stale \cup {Pending(wfPc)}
       ELSE UNCHANGED <<wfPc, wfLocals, wfStatus, wfLog, act, stale>>
    /\ UNCHANGED <<lim, rowOther, cleanup, hist, proc, retr, input, upPc, upRow, blob, row, faults, vec, nextId,
                   delVars, redisVars, chat>>

\* ------------------------------------------------------------------------
\* RedisSessionStore
\* ------------------------------------------------------------------------
\* get_session: None without the hash, a KeyError for a hash that lacks the
\* fields create_session writes
NoSession == [result |-> "None"]

get_session(s) ==
    IF hash[s] = NoKey THEN NoSession
    ELSE IF hash[s].codebase_id = None THEN [result |-> "KeyError"]
    ELSE [result |-> "ok", session_id |-> s, codebase_id |-> hash[s].codebase_id,
          message_count |-> hash[s].message_count]

\* create_session: one pipeline (HSET, EXPIRE of the hash, SADD to the index)
create_session(s, c) ==
    /\ hash' = [hash EXCEPT ![s] = [codebase_id |-> c, message_count |-> 0,
                                    ttl |-> TRUE]]
    /\ index' = [index EXCEPT ![c] = @ \cup {s}]
    /\ UNCHANGED <<msgs, msgsTtl>>

\* HINCRBY and HSET create the hash when it does not exist
hincrby(h) ==
    IF h = NoKey THEN [codebase_id |-> None, message_count |-> 1, ttl |-> FALSE]
    ELSE [h EXCEPT !.message_count = @ + 1]

\* add_message: one pipeline (LPUSH to the list, HINCRBY message_count,
\* HSET last_active, EXPIRE of the hash)
add_message(s, m) ==
    /\ msgs' = [msgs EXCEPT ![s] = <<m>> \o @]
    /\ hash' = [hash EXCEPT ![s] = [hincrby(@) EXCEPT !.ttl = TRUE]]
    /\ UNCHANGED <<msgsTtl, index>>

\* the pipeline of delete_session for the loaded session
delete_session(session) ==
    /\ hash' = [hash EXCEPT ![session.session_id] = NoKey]
    /\ msgs' = [msgs EXCEPT ![session.session_id] = <<>>]
    /\ msgsTtl' = [msgsTtl EXCEPT ![session.session_id] = FALSE]
    /\ index' = [index EXCEPT ![session.codebase_id] = @ \ {session.session_id}]

\* the state of cleanup_expired_sessions. undisturbed: no hash has gone
\* since the previous run started; returned: the counts of the last two runs
NoCleanup ==
    [pc |-> "idle", todo |-> {}, visited |-> {}, key |-> None, members |-> {},
     cur |-> NoSessionId, count |-> 0, runs |-> 0, undisturbed |-> FALSE, quiet |-> TRUE,
     returned |-> <<NoInt, NoInt>>]

\* a step that removes a session hash (expiry or delete_session) is noted
Observed ==
    IF \E s \in SessionIds : hash[s] # NoKey /\ hash'[s] = NoKey
    THEN [cleanup EXCEPT !.undisturbed = FALSE, !.quiet = FALSE]
    ELSE cleanup

\* list_sessions(codebase_id): the index members whose hash exists
list_sessions(c) == {s \in index[c] : hash[s] # NoKey}

\* Redis removes a key whose TTL has run out
TTLExpire ==
    \E s \in SessionIds :
        /\ \/ /\ hash[s] # NoKey
              /\ hash[s].ttl
              /\ hash' = [hash EXCEPT ![s] = NoKey]
              /\ UNCHANGED <<msgs, msgsTtl>>
           \/ /\ msgs[s] # <<>>
              /\ msgsTtl[s]
              /\ msgs' = [msgs EXCEPT ![s] = <<>>]
              /\ msgsTtl' = [msgsTtl EXCEPT ![s] = FALSE]
              /\ UNCHANGED hash
        /\ cleanup' = Observed
        /\ UNCHANGED <<lim, rowOther, hist, proc, retr, ingestVars, delVars, index, chat>>

\* ------------------------------------------------------------------------
\* POST /chat
\* ------------------------------------------------------------------------
\* session ids no request has used yet (uuid4 never repeats)
UsedSessions == {chat[q].session_id : q \in ChatIds}

FreshSession(c) ==
    LET free == {n \in 1..MaxSessions : <<c, n>> \notin UsedSessions}
    IN IF free = {} THEN NoSessionId
       ELSE <<c, CHOOSE n \in free : \A m \in free : n <= m>>

\* chat, lines 32-40, with a session_id: the session must exist
ChatWithSession(q) ==
    \E c \in CodebaseIds, s \in SessionIds :
        /\ chat[q].pc = "idle"
        /\ chat' = [chat EXCEPT ![q] =
              [pc |-> CASE get_session(s).result = "None" -> "resp404"
                        [] get_session(s).result = "KeyError" -> "resp500"
                        [] OTHER -> "agent",
               codebase_id |-> c, session_id |-> s, events |-> <<>>]]
        /\ UNCHANGED <<lim, rowOther, cleanup, hist, proc, retr, ingestVars, delVars, redisVars>>

\* chat, lines 32-40, without session_id: a session is created for the
\* codebase_id of the request
ChatNewSession(q) ==
    \E c \in CodebaseIds :
        /\ chat[q].pc = "idle"
        /\ FreshSession(c) # NoSessionId
        /\ create_session(FreshSession(c), c)
        /\ chat' = [chat EXCEPT ![q] =
              [pc |-> "agent", codebase_id |-> c, session_id |-> FreshSession(c),
               events |-> <<>>]]
        /\ UNCHANGED <<lim, rowOther, cleanup, hist, proc, retr, ingestVars, delVars>>

\* how agent.ainvoke can end: it raises (the exception of a graph node is
\* not caught), or it returns a final state with error set, or one with an
\* answer, sources and validation results
AgentResults == {"raises", "error", "answer"}

\* _error_stream: the error event, then a done event
error_stream == <<"error", "done">>

\* event_generator up to its await: session_id, the chunks of the response,
\* sources and validation when the final state has them
event_generator(result) ==
    IF result = "answer" THEN <<"session_id", "chunk", "sources", "validation">>
    ELSE <<"session_id">>

\* agent.ainvoke ends: an exception leaves the handler (500, no stream),
\* with final_state.error the error stream is sent, otherwise
\* event_generator runs up to save_conversation_turn
ChatAgent(q) ==
    /\ chat[q].pc = "agent"
    /\ \E result \in AgentResults :
          chat' = [chat EXCEPT
              ![q].pc = CASE result = "raises" -> "resp500"
                          [] result = "error" -> "error_stream"
                          [] OTHER -> "save_user",
              ![q].events = CASE result = "raises" -> <<>>
                              [] result = "error" -> error_stream
                              [] OTHER -> event_generator(result)]
    /\ UNCHANGED <<lim, rowOther, cleanup, hist, proc, retr, ingestVars, delVars, redisVars>>

\* save_conversation_turn: first add_message (role user)
ChatSaveUser(q) ==
    /\ chat[q].pc = "save_user"
    /\ add_message(chat[q].session_id, [request |-> q, role |-> "user"])
    /\ chat' = [chat EXCEPT ![q].pc = "save_assistant"]
    /\ UNCHANGED <<lim, rowOther, cleanup, hist, proc, retr, ingestVars, delVars>>

\* save_conversation_turn: second add_message (role assistant), then the
\* done event
ChatSaveAssistant(q) ==
    /\ chat[q].pc = "save_assistant"
    /\ add_message(chat[q].session_id, [request |-> q, role |-> "assistant"])
    /\ chat' = [chat EXCEPT ![q].pc = "done", ![q].events = Append(@, "done")]
    /\ UNCHANGED <<lim, rowOther, cleanup, hist, proc, retr, ingestVars, delVars>>

\* save_conversation_turn raises (a Redis call fails): the except branch of
\* event_generator sends an error event and the stream ends
ChatSaveFail(q) ==
    /\ chat[q].pc \in {"save_user", "save_assistant"}
    /\ chat' = [chat EXCEPT ![q].pc = "stream_error",
                            ![q].events = Append(@, "error")]
    /\ UNCHANGED <<lim, rowOther, cleanup, hist, proc, retr, ingestVars, delVars, redisVars>>

\* ------------------------------------------------------------------------
\* DELETE /codebase/{codebase_id} (delete_codebase) for Target
\* ------------------------------------------------------------------------
\* the codebase that is not Target
OtherCodebase == CHOOSE c \in CodebaseIds : c # Target

\* the committed rows of the codebases table by id
Table == [c \in CodebaseIds |-> IF c = Target THEN row ELSE rowOther]

\* a DELETE that removes every row of the table
db_delete_AllRows(table, codebase_id) == [c \in DOMAIN table |-> NoRow]

\* CodebaseRepository.delete, committed: the row with this id is gone
db_delete(table, codebase_id) == [table EXCEPT ![codebase_id] = NoRow]

\* repo.get: 404 without a committed row
DelGet ==
    /\ delPc = "idle"
    /\ IF row = NoRow
       THEN delPc' = "resp404" /\ UNCHANGED delSnap
       ELSE delPc' = "vec_get" /\ delSnap' = row
    /\ UNCHANGED <<lim, rowOther, cleanup, hist, proc, retr, ingestVars, delIds, delSess, delCur, redisVars, chat>>
    /\ UNCHANGED delLog

\* VectorStore.delete_codebase: collection.get(where codebase_id)
DelVecGet ==
    /\ delPc = "vec_get"
    /\ delIds' = {ch.id : ch \in {x \in vec : x.codebase_id = Target}}
    /\ delPc' = IF delIds' # {} THEN "vec_delete" ELSE "sess_members"
    /\ UNCHANGED <<lim, rowOther, cleanup, hist, proc, retr, ingestVars, delSnap, delSess, delCur, redisVars, chat>>
    /\ UNCHANGED delLog

\* VectorStore.delete_codebase: collection.delete(ids)
DelVecDelete ==
    /\ delPc = "vec_delete"
    /\ vec' = {ch \in vec : ch.id \notin delIds}
    /\ delPc' = "sess_members"
    /\ UNCHANGED <<lim, rowOther, cleanup, hist, proc, retr, input, upPc, upRow, blob, row, wfPc, wfStatus,
                   wfLocals, wfLog,
                   act, stale, faults, cancelReq, nextId, delSnap, delIds, delSess,
                   delCur, redisVars, chat>>
    /\ UNCHANGED delLog

\* a ChromaDB failure in a handler that has removed the row before it
\* removes the chunks
DelVecFail_RowDeleted ==
    /\ delPc \in {"vec_get", "vec_delete"}
    /\ delPc' = "resp500"
    /\ row' = NoRow
    /\ UNCHANGED <<lim, rowOther, cleanup, hist, proc, retr, input, upPc, upRow, blob,
                   wfPc, wfStatus, wfLocals, wfLog, act, stale, faults,
                   cancelReq, vec, nextId, delSnap, delIds, delSess, delCur,
                   delLog, redisVars, chat>>

\* a ChromaDB call raises: the handler answers 500
DelVecFail ==
    /\ delPc \in {"vec_get", "vec_delete"}
    /\ delPc' = "resp500"
    /\ UNCHANGED <<lim, rowOther, cleanup, hist, proc, retr, ingestVars, delSnap, delIds, delSess, delCur,
                   redisVars, chat>>
    /\ UNCHANGED delLog

\* delete_sessions_by_codebase: SMEMBERS codebase:<id>:sessions
DelSessMembers ==
    /\ delPc = "sess_members"
    /\ delSess' = index[Target]
    /\ delPc' = "sess_loop"
    /\ UNCHANGED <<lim, rowOther, cleanup, hist, proc, retr, ingestVars, delSnap, delIds, delCur, redisVars, chat>>
    /\ UNCHANGED delLog

\* delete_session: get_session of the next id of the snapshot
DelSessGet ==
    \E s \in delSess :
        /\ delPc = "sess_loop"
        /\ CASE get_session(s).result = "None" ->
                  /\ delSess' = delSess \ {s}
                  /\ UNCHANGED <<delPc, delCur>>
             [] get_session(s).result = "KeyError" ->
                  /\ delPc' = "resp500"
                  /\ UNCHANGED <<delSess, delCur>>
             [] OTHER ->
                  /\ delCur' = get_session(s)
                  /\ delPc' = "sess_pipe"
                  /\ UNCHANGED delSess
        /\ UNCHANGED <<lim, rowOther, cleanup, hist, proc, retr, ingestVars, delSnap, delIds, redisVars, chat>>
        /\ UNCHANGED delLog

\* delete_session: the pipeline (DEL hash, DEL list, SREM index)
DelSessPipe ==
    /\ delPc = "sess_pipe"
    /\ delete_session(delCur)
    /\ delSess' = delSess \ {delCur.session_id}
    /\ delCur' = NoSession
    /\ delPc' = "sess_loop"
    /\ cleanup' = Observed
    /\ UNCHANGED <<lim, rowOther, hist, proc, retr, ingestVars, delSnap, delIds, chat>>
    /\ UNCHANGED delLog

\* delete_sessions_by_codebase: DEL codebase:<id>:sessions after the loop
DelSessIndex ==
    /\ delPc = "sess_loop"
    /\ delSess = {}
    /\ index' = [index EXCEPT ![Target] = {}]
    /\ delPc' = "cancel"
    /\ UNCHANGED <<lim, rowOther, cleanup, hist, proc, retr, ingestVars, delSnap, delIds, delSess, delCur, hash, msgs,
                   msgsTtl, chat>>
    /\ UNCHANGED delLog

\* steps 3 and 4: the stored file is removed only when the row has a
\* storage_path; the workflow is cancelled only when the loaded row has a
\* workflow_id and status PROCESSING (errors of the cancel are swallowed)
DelCancel ==
    /\ delPc = "cancel"
    /\ blob' = IF delSnap.storage_path # None THEN FALSE ELSE blob
    /\ cancelReq' = IF /\ delSnap.workflow_id # ""
                       /\ delSnap.status = "processing"
                       /\ wfPc \in AwaitPcs
                    THEN TRUE ELSE cancelReq
    /\ delPc' = "row"
    /\ UNCHANGED <<lim, rowOther, cleanup, hist, proc, retr, input, upPc, upRow, row, wfPc, wfStatus, wfLocals,
                   wfLog, act,
                   stale, faults, vec, nextId, delSnap, delIds, delSess, delCur,
                   redisVars, chat>>
    /\ UNCHANGED delLog

\* step 5, repo.delete: DELETE flushed inside the request's transaction
DelRow ==
    /\ delPc = "row"
    /\ delPc' = IF row = NoRow THEN "resp404" ELSE "flushed"
    /\ UNCHANGED <<lim, rowOther, cleanup, hist, proc, retr, ingestVars, delSnap, delIds, delSess, delCur,
                   redisVars, chat>>
    /\ UNCHANGED delLog

\* the handler returns None (204) and get_db commits the DELETE
DelCommit ==
    /\ delPc = "flushed"
    /\ row' = db_delete(Table, Target)[Target]
    /\ rowOther' = db_delete(Table, Target)[OtherCodebase]
    /\ delPc' = "resp204"
    /\ UNCHANGED <<lim, cleanup, hist, proc, retr, input, upPc, upRow, blob, wfPc, wfStatus, wfLocals,
                   wfLog, act,
                   stale, faults, cancelReq, vec, nextId, delSnap, delIds, delSess,
                   delCur, redisVars, chat>>
    /\ UNCHANGED delLog

\* a Redis call of delete_sessions_by_codebase raises (smembers, hgetall, the
\* pipeline of delete_session, which is then not applied, or the final DEL):
\* the handler answers 500
DelSessFail ==
    /\ delPc \in {"sess_members", "sess_loop", "sess_pipe"}
    /\ delPc' = "resp500"
    /\ UNCHANGED <<lim, rowOther, cleanup, hist, proc, retr, ingestVars, delSnap,
                   delIds, delSess, delCur, delLog, redisVars, chat>>

\* the client issues the DELETE again after a 500
DelAgain ==
    /\ delPc = "resp500"
    /\ Len(delLog) + 1 < MaxDeletes
    /\ delLog' = Append(delLog, delPc)
    /\ delPc' = "idle"
    /\ delSnap' = NoRow
    /\ delIds' = {}
    /\ delSess' = {}
    /\ delCur' = NoSession
    /\ UNCHANGED <<lim, rowOther, cleanup, hist, proc, retr, ingestVars, redisVars,
                   chat>>

\* ------------------------------------------------------------------------
\* Retrieval: VectorStore.query, RetrievalService and the retrieve_code tool
\* ------------------------------------------------------------------------
\* settings.default_top_k_results, settings.max_top_k_results
default_top_k_results == 5
max_top_k_results == 20

\* top_k values a caller may request (None is NoInt)
TopKs == {-2, 0, 1, 5, 20, 21}

\* a where dict over the metadata keys; None = the key is not in the dict
NoWhere == [codebase_id |-> None, language |-> None, file_path |-> None]
Wheres == [codebase_id : CodebaseIds \cup {None}, language : {"python", None},
           file_path : ArchiveEntries \cup {None}]

NoRetrieval ==
    [path |-> "none", codebase_id |-> None, n_results |-> NoInt,
     where |-> NoWhere, outcome |-> "none", chunks |-> {}]

\* the metadata add_chunks stores with a chunk
Metadata(ch) ==
    [codebase_id |-> ch.codebase_id, language |-> detect_language(ch.content[1]),
     file_path |-> ch.content[1]]

\* VectorStore.query: where_filter = {"codebase_id": ...} updated with where
where_filter(codebase_id, where) ==
    [codebase_id |-> IF where.codebase_id # None THEN where.codebase_id
                     ELSE codebase_id,
     language |-> where.language,
     file_path |-> where.file_path]

\* the chunks of the collection that satisfy a where filter
Matching(wf) ==
    {ch \in vec : \A k \in {"codebase_id", "language", "file_path"} :
                      wf[k] # None => Metadata(ch)[k] = wf[k]}

Min(a, b) == IF a < b THEN a ELSE b

\* VectorStore.query called with (query, codebase_id, top_k, where):
\* collection.query returns up to n_results of the matching chunks and
\* rejects an n_results below 1
VectorQuery ==
    \E c \in CodebaseIds, top_k \in TopKs, where \in Wheres :
        /\ IF top_k < 1
           THEN retr' = [path |-> "query", codebase_id |-> c, n_results |-> top_k,
                         where |-> where_filter(c, where),
                         outcome |-> "rejected", chunks |-> {}]
           ELSE \E res \in SUBSET Matching(where_filter(c, where)) :
                  /\ Cardinality(res) =
                        Min(top_k, Cardinality(Matching(where_filter(c, where))))
                  /\ retr' = [path |-> "query", codebase_id |-> c,
                              n_results |-> top_k,
                              where |-> where_filter(c, where),
                              outcome |-> "ok", chunks |-> res]
        /\ UNCHANGED <<lim, rowOther, cleanup, hist, proc, ingestVars, delVars, redisVars, chat>>

\* the call self._vector_store.query(query_embedding=..., codebase_id=...,
\* top_k=..., where=...) of RetrievalService: VectorStore.query has no
\* parameter query_embedding, so the call raises TypeError
Dispatch(path, c, top_k, where) ==
    [path |-> path, codebase_id |-> c, n_results |-> top_k, where |-> where,
     outcome |-> "TypeError", chunks |-> {}]

\* generate_query_embedding gave nothing: RuntimeError before the dispatch
NotEmbedded(path, c) ==
    [path |-> path, codebase_id |-> c, n_results |-> NoInt, where |-> NoWhere,
     outcome |-> "RuntimeError", chunks |-> {}]

\* RetrievalService.retrieve_code: top_k defaults to default_top_k_results and
\* is limited from above by max_top_k_results
retrieve_code(path, c, top_k, embedded) ==
    IF ~embedded THEN NotEmbedded(path, c)
    ELSE Dispatch(path, c,
                  Min(IF top_k = NoInt THEN default_top_k_results ELSE top_k,
                      max_top_k_results),
                  NoWhere)

\* RetrievalService.retrieve_by_filter: the filters that are set form the
\* where dict, top_k is passed on as it is
retrieve_by_filter(path, c, language, file_path, top_k, embedded) ==
    IF ~embedded THEN NotEmbedded(path, c)
    ELSE Dispatch(path, c, top_k,
                  [codebase_id |-> None, language |-> language,
                   file_path |-> file_path])

RetrieveCode ==
    \E c \in CodebaseIds, top_k \in TopKs \cup {NoInt}, embedded \in BOOLEAN :
        /\ retr' = retrieve_code("retrieve_code", c, top_k, embedded)
        /\ UNCHANGED <<lim, rowOther, cleanup, hist, proc, ingestVars, delVars, redisVars, chat>>

RetrieveByFilter ==
    \E c \in CodebaseIds, top_k \in TopKs, where \in Wheres, embedded \in BOOLEAN :
        /\ where.codebase_id = None
        /\ retr' = retrieve_by_filter("retrieve_by_filter", c, where.language,
                                      where.file_path, top_k, embedded)
        /\ UNCHANGED <<lim, rowOther, cleanup, hist, proc, ingestVars, delVars, redisVars, chat>>

\* the retrieve_code tool (agents/tools.py): min(top_k, 20), then the
\* filtered retrieval when a filter is given and the standard one otherwise
RetrieveTool ==
    \E c \in CodebaseIds, top_k \in TopKs, where \in Wheres, embedded \in BOOLEAN :
        /\ where.codebase_id = None
        /\ retr' = IF where.language # None \/ where.file_path # None
                   THEN retrieve_by_filter("tool", c, where.language,
                                           where.file_path, Min(top_k, 20), embedded)
                   ELSE retrieve_code("tool", c, Min(top_k, 20), embedded)
        /\ UNCHANGED <<lim, rowOther, cleanup, hist, proc, ingestVars, delVars, redisVars, chat>>

\* ------------------------------------------------------------------------
\* Secrets: SecretDetector.redact inside process_codebase and the
\* SecretScanner of scan_for_secrets_activity
\* ------------------------------------------------------------------------
\* A line of a file is a sequence of text spans:
\*   "x"     text no pattern matches
\*   "AKIA"  an AWS access key id (AKIA and 16 characters)
\*   "xoxb"  a Slack token
\*   "pw"    the text password = " ; the span after it is the quoted value
MaxLine == 3
Spans == {"x", "AKIA", "xoxb", "pw"}
Lines == UNION {[1..n -> Spans] : n \in 0..MaxLine}

\* the PATTERNS tables in their dict order, restricted to the spans above
DetectorPatterns == <<"AWS_API_KEY", "PASSWORD_ASSIGNMENT">>
ScannerPatterns == <<"AWS_ACCESS_KEY", "SLACK_TOKEN", "PASSWORD">>

\* settings.enable_secret_detection
enable_secret_detection == TRUE

\* length of the match of a pattern that starts at position i, 0 if none
MatchAt(pattern, line, i) ==
    CASE pattern \in {"AWS_API_KEY", "AWS_ACCESS_KEY"} ->
            IF line[i] = "AKIA" THEN 1 ELSE 0
      [] pattern = "SLACK_TOKEN" ->
            IF line[i] = "xoxb" THEN 1 ELSE 0
      [] pattern \in {"PASSWORD_ASSIGNMENT", "PASSWORD"} ->
            IF line[i] = "pw" /\ i < Len(line) /\ line[i + 1] # "pw" THEN 2 ELSE 0
      [] OTHER -> 0

\* pattern.finditer(line): the matched texts, leftmost first, not overlapping
RECURSIVE finditer(_, _, _)
finditer(pattern, line, i) ==
    IF i > Len(line) THEN <<>>
    ELSE LET n == MatchAt(pattern, line, i)
         IN IF n = 0 THEN finditer(pattern, line, i + 1)
            ELSE <<SubSeq(line, i, i + n - 1)>> \o finditer(pattern, line, i + n)

\* text m occurs in s at position i
OccursAt(s, m, i) == i + Len(m) - 1 <= Len(s) /\ SubSeq(s, i, i + Len(m) - 1) = m

\* m in s
Contains(s, m) == \E i \in 1..Len(s) : OccursAt(s, m, i)

\* s.replace(m, placeholder) from position i on
RECURSIVE replace(_, _, _, _)
replace(s, m, placeholder, i) ==
    IF i > Len(s) THEN <<>>
    ELSE IF OccursAt(s, m, i)
         THEN <<placeholder>> \o replace(s, m, placeholder, i + Len(m))
         ELSE <<s[i]>> \o replace(s, m, placeholder, i + 1)

placeholder(pattern) == "[REDACTED_" \o pattern \o "]"

\* the replacements of redact for the matches ms of one pattern
RECURSIVE ReplaceAll(_, _, _)
ReplaceAll(redacted_line, ms, pattern) ==
    IF ms = <<>> THEN redacted_line
    ELSE ReplaceAll(replace(redacted_line, Head(ms), placeholder(pattern), 1),
                    Tail(ms), pattern)

\* SecretDetector.redact for one line: every pattern is searched in the
\* original line and its matched texts are replaced in redacted_line
RECURSIVE redact(_, _, _)
redact(line, redacted_line, k) ==
    IF k > Len(DetectorPatterns) THEN redacted_line
    ELSE redact(line,
                ReplaceAll(redacted_line, finditer(DetectorPatterns[k], line, 1),
                           DetectorPatterns[k]),
                k + 1)

Range(f) == {f[i] : i \in DOMAIN f}

\* the matched texts of all patterns of a table in a line
Detections(patterns, line) ==
    UNION {Range(finditer(patterns[k], line, 1)) : k \in DOMAIN patterns}

NoFile ==
    [content |-> <<>>, pc |-> "none", stored |-> <<>>, detected |-> {},
     reported |-> {}]

\* process_codebase for one file of a supported language: redact when the
\* setting is on, parse and chunk the result, add the chunks to the store
ProcessFile ==
    /\ proc.pc = "acquired"
    /\ proc' = [proc EXCEPT
                  !.pc = "parsed",
                  !.stored = IF enable_secret_detection
                             THEN redact(proc.content, proc.content, 1)
                             ELSE proc.content,
                  !.detected = IF enable_secret_detection
                               THEN Detections(DetectorPatterns, proc.content)
                               ELSE {}]
    /\ UNCHANGED <<lim, rowOther, cleanup, hist, retr, ingestVars, delVars, redisVars, chat>>

\* scan_for_secrets_activity for the same file: SecretScanner.scan_code over
\* the content as acquired
ScanFile ==
    /\ proc.pc = "parsed"
    /\ proc' = [proc EXCEPT
                  !.pc = "scanned",
                  !.reported = Detections(ScannerPatterns, proc.content)]
    /\ UNCHANGED <<lim, rowOther, cleanup, hist, retr, ingestVars, delVars, redisVars, chat>>

\* ------------------------------------------------------------------------
\* Session history: get_messages, query_analysis_node and
\* LLMService.generate_response
\* ------------------------------------------------------------------------
MaxMessages == 22

\* the limit of query_analysis_node and the slice of generate_response
history_limit == 20
history_slice == 5

\* limits a caller of get_messages may pass (None is NoInt)
Limits == {NoInt, 0, 1, 2, 5, 20}

\* the session whose history is loaded
HistorySession == <<Target, 1>>

\* the k-th message appended to the session
Message(k) ==
    [seq |-> k, role |-> IF k % 2 = 1 THEN "user" ELSE "assistant"]

\* the list after n add_message calls: LPUSH puts the newest message first
Pushed(n) == [i \in 1..n |-> Message(n + 1 - i)]

\* Redis LRANGE key start stop: both ends are included, the indices start at
\* 0 and a negative index counts from the end of the list
lrange(list, start, stop) ==
    LET last == IF stop < 0 THEN Len(list) + stop
                ELSE IF stop > Len(list) - 1 THEN Len(list) - 1 ELSE stop
    IN SubSeq(list, start + 1, last + 1)

\* RedisSessionStore.get_messages: stop = limit or -1, LRANGE 0 stop
get_messages(list, limit) ==
    lrange(list, 0, IF limit = NoInt \/ limit = 0 THEN -1 ELSE limit)

\* seq[-k:]
LastOf(seq, k) ==
    SubSeq(seq, IF Len(seq) > k THEN Len(seq) - k + 1 ELSE 1, Len(seq))

NoHistory ==
    [pc |-> "none", limit |-> NoInt, returned |-> <<>>,
     session_history |-> <<>>, messages |-> <<>>]

\* a caller reads the messages of the session with a limit
GetMessages ==
    \E limit \in Limits :
        /\ hist.pc = "idle"
        /\ hist' = [hist EXCEPT !.pc = "read", !.limit = limit,
                      !.returned = get_messages(msgs[HistorySession], limit)]
        /\ UNCHANGED <<lim, rowOther, cleanup, proc, retr, ingestVars, delVars, redisVars, chat>>

\* query_analysis_node: with a session that exists, session_history is what
\* get_messages(session_id, limit=20) yields, user and assistant messages
QueryAnalysis ==
    /\ hist.pc \in {"idle", "read"}
    /\ hist' = [hist EXCEPT
                  !.pc = "analysed",
                  !.session_history =
                      IF hash[HistorySession] = NoKey THEN <<>>
                      ELSE get_messages(msgs[HistorySession], history_limit)]
    /\ UNCHANGED <<lim, rowOther, cleanup, proc, retr, ingestVars, delVars, redisVars, chat>>

\* response_generation_node: generate_response sends session_history[-5:]
\* followed by the current query
ResponseGeneration ==
    /\ hist.pc = "analysed"
    /\ hist' = [hist EXCEPT
                  !.pc = "generated",
                  !.messages = LastOf(hist.session_history, history_slice)
                               \o <<[seq |-> 0, role |-> "user"]>>]
    /\ UNCHANGED <<lim, rowOther, cleanup, proc, retr, ingestVars, delVars, redisVars, chat>>

\* ------------------------------------------------------------------------
\* RedisSessionStore.cleanup_expired_sessions
\* ------------------------------------------------------------------------
MaxRuns == 2

\* the keys codebase:<id>:sessions that exist (Redis drops an empty set)
IndexKeys == {c \in CodebaseIds : index[c] # {}}

\* SREM that leaves the member in the set
srem_KeepsMember(set, member) == set

\* SREM key member
srem(set, member) == set \ {member}

\* a run starts: scan_iter returns at least the keys that exist throughout
CleanupStart ==
    /\ cleanup.pc = "idle"
    /\ cleanup.runs < MaxRuns
    /\ cleanup' = [cleanup EXCEPT
                     !.pc = "scan", !.todo = IndexKeys, !.visited = {},
                     !.count = 0,
                     !.undisturbed = cleanup.runs >= 1 /\ cleanup.quiet,
                     !.quiet = TRUE]
    /\ UNCHANGED <<lim, rowOther, hist, proc, retr, ingestVars, delVars, redisVars, chat>>

\* the next key of scan_iter and the smembers snapshot of it
CleanupSmembers ==
    \E c \in IndexKeys \ cleanup.visited :
        /\ cleanup.pc = "scan"
        /\ cleanup' = [cleanup EXCEPT
                         !.pc = "exists", !.key = c, !.members = index[c],
                         !.visited = @ \cup {c}]
        /\ UNCHANGED <<lim, rowOther, hist, proc, retr, ingestVars, delVars, redisVars, chat>>

\* where the loop over the snapshot goes on
AfterMember(members) == IF members = {} THEN "scan" ELSE "exists"

\* redis.exists for the next member of the snapshot
CleanupExists ==
    \E s \in cleanup.members :
        /\ cleanup.pc = "exists"
        /\ cleanup' = [cleanup EXCEPT
                         !.members = @ \ {s},
                         !.cur = IF hash[s] = NoKey THEN s ELSE NoSessionId,
                         !.pc = IF hash[s] = NoKey THEN "srem"
                                ELSE AfterMember(cleanup.members \ {s})]
        /\ UNCHANGED <<lim, rowOther, hist, proc, retr, ingestVars, delVars, redisVars, chat>>

\* the session hash was missing: srem and count += 1
CleanupSrem ==
    /\ cleanup.pc = "srem"
    /\ index' = [index EXCEPT ![cleanup.key] = srem(@, cleanup.cur)]
    /\ cleanup' = [cleanup EXCEPT
                     !.count = @ + 1, !.cur = NoSessionId,
                     !.pc = AfterMember(cleanup.members)]
    /\ UNCHANGED <<lim, rowOther, hist, proc, retr, ingestVars, delVars, hash, msgs, msgsTtl, chat>>

\* scan_iter is exhausted: the run returns count
CleanupReturn ==
    /\ cleanup.pc = "scan"
    /\ (cleanup.todo \cap IndexKeys) \subseteq cleanup.visited
    /\ cleanup' = [cleanup EXCEPT
                     !.pc = "idle", !.runs = @ + 1, !.key = None,
                     !.todo = {}, !.visited = {},
                     !.returned = <<cleanup.returned[2], cleanup.count>>]
    /\ UNCHANGED <<lim, rowOther, hist, proc, retr, ingestVars, delVars, redisVars, chat>>

\* ------------------------------------------------------------------------
\* ConcurrentQueryLimiter (core/security.py)
\* ------------------------------------------------------------------------
\* ConcurrentQueryLimiter(max_concurrent): the number of slots of a
\* deployment configured with rate_limit_concurrent_queries = 1
max_concurrent == 1

\* the tasks that call the limiter, and how many calls they make in all
MaxTasks == 3
MaxCalls == 5
LimTasks == 1..MaxTasks

\* __init__: asyncio.Semaphore(max_concurrent), _active_count = 0. handoff
\* tells which asyncio.Semaphore the interpreter has: from Python 3.11 on
\* release hands the slot to the first waiter and acquire queues behind
\* waiters, before that the woken waiter contends for the value again
NoLimiter ==
    [value |-> max_concurrent, active_count |-> 0, waiters |-> <<>>,
     woken |-> {}, handoff |-> TRUE, calls |-> 0]

\* the waiters whose future is not done
Sleeping(l) == SelectSeq(l.waiters, LAMBDA t : t \notin l.woken)

\* Semaphore.locked(): acquire has to wait
locked(l) ==
    \/ l.value <= 0
    \/ l.handoff /\ l.waiters # <<>>

\* Semaphore._wake_up_next: the future of the first waiter that is not done
\* is set; from 3.11 on the value is taken for it and it stays in the queue
\* until it runs, before that it is popped
_wake_up_next(l) ==
    IF Sleeping(l) = <<>> THEN l
    ELSE LET t == Head(Sleeping(l))
         IN IF l.handoff
            THEN [l EXCEPT !.value = @ - 1, !.woken = @ \cup {t}]
            ELSE [l EXCEPT !.woken = @ \cup {t},
                           !.waiters = SelectSeq(@, LAMBDA u : u # t)]

\* the properties active_count and available_slots
active_count(l) == l.active_count

available_slots(l) == max_concurrent - l.active_count

\* the tasks suspended inside acquire
Blocked(l) == {l.waiters[i] : i \in 1..Len(l.waiters)} \cup l.woken

\* acquire called by task t: the semaphore is taken and _active_count
\* incremented under the lock without suspending, or t waits for the
\* semaphore
LimAcquire(t) ==
    /\ t \notin Blocked(lim)
    /\ lim.calls < MaxCalls
    /\ lim' = IF locked(lim)
              THEN [lim EXCEPT !.waiters = Append(@, t), !.calls = @ + 1]
              ELSE [lim EXCEPT !.value = @ - 1, !.active_count = @ + 1,
                               !.calls = @ + 1]
    /\ UNCHANGED <<rowOther, cleanup, hist, proc, retr, ingestVars, delVars,
                   redisVars, chat>>

\* a waiter whose future was set runs again: it has the slot (3.11 on) or
\* takes the value if it is still positive and waits again otherwise, then
\* increments _active_count under the lock
LimResume(t) ==
    /\ t \in lim.woken
    /\ lim' =
          IF lim.handoff
          THEN LET l == [lim EXCEPT !.woken = @ \ {t},
                                    !.waiters = SelectSeq(@, LAMBDA u : u # t),
                                    !.active_count = @ + 1]
               IN IF l.value > 0 THEN _wake_up_next(l) ELSE l
          ELSE IF lim.value > 0
               THEN [lim EXCEPT !.woken = @ \ {t}, !.value = @ - 1,
                                !.active_count = @ + 1]
               ELSE [lim EXCEPT !.woken = @ \ {t}, !.waiters = Append(@, t)]
    /\ UNCHANGED <<rowOther, cleanup, hist, proc, retr, ingestVars, delVars,
                   redisVars, chat>>

\* release called by task t: _active_count is decremented under the lock,
\* then Semaphore.release increments the value and wakes the next waiter;
\* nothing checks that t holds a slot
LimRelease(t) ==
    /\ t \notin Blocked(lim)
    /\ lim.calls < MaxCalls
    /\ lim' = _wake_up_next([lim EXCEPT !.active_count = @ - 1,
                                        !.value = @ + 1, !.calls = @ + 1])
    /\ UNCHANGED <<rowOther, cleanup, hist, proc, retr, ingestVars, delVars,
                   redisVars, chat>>

\* ------------------------------------------------------------------------
\* Specifications
\* ------------------------------------------------------------------------
InitRedis ==
    /\ hash = [s \in SessionIds |-> NoKey]
    /\ msgs = [s \in SessionIds |-> <<>>]
    /\ msgsTtl = [s \in SessionIds |-> FALSE]
    /\ index = [c \in CodebaseIds |-> {}]
    /\ chat = [q \in ChatIds |-> [pc |-> "idle", codebase_id |-> None,
                                  session_id |-> NoSessionId, events |-> <<>>]]

InitDelete ==
    /\ delPc = "idle"
    /\ delSnap = NoRow
    /\ delIds = {}
    /\ delSess = {}
    /\ delCur = NoSession
    /\ delLog = <<>>

\* ingestion: nothing uploaded yet, any upload request
Init ==
    /\ input \in [source_type : {"zip", "github_url"}, entries : SUBSET ArchiveEntries]
    /\ upPc = "idle"
    /\ upRow = NoRow
    /\ blob = FALSE
    /\ row = NoRow
    /\ wfPc = "not_started"
    /\ wfStatus = InitialStatus
    /\ wfLocals = InitialLocals
    /\ wfLog = <<>>
    /\ act = FreshAttempt
    /\ stale = {}
    /\ faults = 0
    /\ cancelReq = FALSE
    /\ vec = {}
    /\ nextId = 1
    /\ InitDelete
    /\ InitRedis
    /\ retr = NoRetrieval
    /\ proc = NoFile
    /\ hist = NoHistory
    /\ cleanup = NoCleanup
    /\ lim = NoLimiter
    /\ rowOther = NoRow

Next ==
    \/ UploadCreate
    \/ UploadSaveFile
    \/ UploadStartWorkflow
    \/ UploadStartFail
    \/ UploadSetWorkflowId
    \/ UploadSetWorkflowIdFail
    \/ UploadCommit
    \/ UploadRollback
    \/ ActRun
    \/ ActComplete
    \/ ActFail
    \/ ActTimeout
    \/ StaleRun
    \/ WfCancel
    \/ DelGet
    \/ DelVecGet
    \/ DelVecDelete
    \/ DelVecFail
    \/ DelSessMembers
    \/ DelSessIndex
    \/ DelCancel
    \/ DelRow
    \/ DelCommit

Spec == Init /\ [][Next]_vars

\* sessions: the archive {"a.py"} has been ingested completely
IngestedFiles == {"a.py"}

IngestedLocals ==
    [files |-> IngestedFiles,
     files_total |-> Cardinality(IngestedFiles),
     files_processed |-> Cardinality(supported_files(IngestedFiles)),
     chunks_count |-> Cardinality(all_chunks(IngestedFiles))]

InitSession ==
    /\ input = [source_type |-> "zip", entries |-> IngestedFiles]
    /\ upPc = "committed"
    /\ row = update_status([create("") EXCEPT !.workflow_id = "ingestion-c1"],
                           "completed", IngestedLocals.files_processed,
                           IngestedLocals.files_total, None)
    /\ upRow = row
    /\ blob = TRUE
    /\ wfPc = "completed"
    /\ wfStatus = StatusAt("u_completed", IngestedLocals, InitialStatus, None)
    /\ wfLocals = IngestedLocals
    /\ wfLog = <<"validate_codebase", "clone_or_extract", "parse_codebase",
                 "scan_for_secrets_activity">>
    /\ act = FreshAttempt
    /\ stale = {}
    /\ faults = 0
    /\ cancelReq = FALSE
    /\ vec = add_chunks({}, CodeChunks(Target, all_chunks(IngestedFiles), 1))
    /\ nextId = 1 + Cardinality(all_chunks(IngestedFiles))
    /\ InitDelete
    /\ InitRedis
    /\ retr = NoRetrieval
    /\ proc = NoFile
    /\ hist = NoHistory
    /\ cleanup = NoCleanup
    /\ lim = NoLimiter
    /\ rowOther = NoRow

NextSession ==
    \/ \E q \in ChatIds : ChatWithSession(q)
    \/ \E q \in ChatIds : ChatNewSession(q)
    \/ \E q \in ChatIds : ChatAgent(q)
    \/ \E q \in ChatIds : ChatSaveUser(q)
    \/ \E q \in ChatIds : ChatSaveAssistant(q)
    \/ \E q \in ChatIds : ChatSaveFail(q)
    \/ TTLExpire
    \/ DelGet
    \/ DelVecGet
    \/ DelVecDelete
    \/ DelVecFail
    \/ DelSessMembers
    \/ DelSessGet
    \/ DelSessPipe
    \/ DelSessIndex
    \/ DelCancel
    \/ DelRow
    \/ DelCommit

SpecSession == InitSession /\ [][NextSession]_vars

\* retrieval: the archive {"a.py"} has been ingested for Target and any
\* archive for the other codebase

InitRetrieval ==
    /\ input = [source_type |-> "zip", entries |-> IngestedFiles]
    /\ upPc = "committed"
    /\ row = update_status([create("") EXCEPT !.workflow_id = "ingestion-c1"],
                           "completed", IngestedLocals.files_processed,
                           IngestedLocals.files_total, None)
    /\ upRow = row
    /\ blob = TRUE
    /\ wfPc = "completed"
    /\ wfStatus = StatusAt("u_completed", IngestedLocals, InitialStatus, None)
    /\ wfLocals = IngestedLocals
    /\ wfLog = <<"validate_codebase", "clone_or_extract", "parse_codebase",
                 "scan_for_secrets_activity">>
    /\ act = FreshAttempt
    /\ stale = {}
    /\ faults = 0
    /\ cancelReq = FALSE
    /\ \E files \in SUBSET ArchiveEntries :
          /\ vec = add_chunks(
                      add_chunks({}, CodeChunks(Target, all_chunks(IngestedFiles), 1)),
                      CodeChunks(OtherCodebase, all_chunks(files),
                                 1 + Cardinality(all_chunks(IngestedFiles))))
          /\ nextId = 1 + Cardinality(vec)
    /\ InitDelete
    /\ InitRedis
    /\ retr = NoRetrieval
    /\ proc = NoFile
    /\ hist = NoHistory
    /\ cleanup = NoCleanup
    /\ lim = NoLimiter
    /\ rowOther = NoRow

NextRetrieval ==
    \/ VectorQuery
    \/ RetrieveCode
    \/ RetrieveByFilter
    \/ RetrieveTool

SpecRetrieval == InitRetrieval /\ [][NextRetrieval]_vars

\* secrets: one acquired file of the archive, any content
InitSecrets ==
    /\ input = [source_type |-> "zip", entries |-> IngestedFiles]
    /\ upPc = "committed"
    /\ row = update_status([create("") EXCEPT !.workflow_id = "ingestion-c1"],
                           "processing", 0, Cardinality(IngestedFiles), None)
    /\ upRow = row
    /\ blob = TRUE
    /\ wfPc = "parse_codebase"
    /\ wfStatus = StatusAt("u_parsing", [InitialLocals EXCEPT
                        !.files = IngestedFiles,
                        !.files_total = Cardinality(IngestedFiles)],
                        InitialStatus, None)
    /\ wfLocals = [InitialLocals EXCEPT !.files = IngestedFiles,
                                        !.files_total = Cardinality(IngestedFiles)]
    /\ wfLog = <<"validate_codebase", "clone_or_extract", "parse_codebase">>
    /\ act = FreshAttempt
    /\ stale = {}
    /\ faults = 0
    /\ cancelReq = FALSE
    /\ vec = {}
    /\ nextId = 1
    /\ InitDelete
    /\ InitRedis
    /\ retr = NoRetrieval
    /\ \E line \in Lines : proc = [NoFile EXCEPT !.content = line, !.pc = "acquired"]
    /\ hist = NoHistory
    /\ cleanup = NoCleanup
    /\ lim = NoLimiter
    /\ rowOther = NoRow

NextSecrets ==
    \/ ProcessFile
    \/ ScanFile

SpecSecrets == InitSecrets /\ [][NextSecrets]_vars

\* history: a session of the ingested codebase that holds any number of
\* messages
InitHistory ==
    /\ input = [source_type |-> "zip", entries |-> IngestedFiles]
    /\ upPc = "committed"
    /\ row = update_status([create("") EXCEPT !.workflow_id = "ingestion-c1"],
                           "completed", IngestedLocals.files_processed,
                           IngestedLocals.files_total, None)
    /\ upRow = row
    /\ blob = TRUE
    /\ wfPc = "completed"
    /\ wfStatus = StatusAt("u_completed", IngestedLocals, InitialStatus, None)
    /\ wfLocals = IngestedLocals
    /\ wfLog = <<"validate_codebase", "clone_or_extract", "parse_codebase",
                 "scan_for_secrets_activity">>
    /\ act = FreshAttempt
    /\ stale = {}
    /\ faults = 0
    /\ cancelReq = FALSE
    /\ vec = add_chunks({}, CodeChunks(Target, all_chunks(IngestedFiles), 1))
    /\ nextId = 1 + Cardinality(all_chunks(IngestedFiles))
    /\ InitDelete
    /\ \E n \in 0..MaxMessages :
          /\ hash = [s \in SessionIds |->
                       IF s = HistorySession
                       THEN [codebase_id |-> Target, message_count |-> n,
                             ttl |-> TRUE]
                       ELSE NoKey]
          /\ msgs = [s \in SessionIds |->
                       IF s = HistorySession THEN Pushed(n) ELSE <<>>]
    /\ msgsTtl = [s \in SessionIds |-> FALSE]
    /\ index = [c \in CodebaseIds |-> IF c = Target THEN {HistorySession} ELSE {}]
    /\ chat = [q \in ChatIds |-> [pc |-> "idle", codebase_id |-> None,
                                  session_id |-> NoSessionId, events |-> <<>>]]
    /\ retr = NoRetrieval
    /\ proc = NoFile
    /\ hist = [NoHistory EXCEPT !.pc = "idle"]
    /\ cleanup = NoCleanup
    /\ lim = NoLimiter
    /\ rowOther = NoRow

NextHistory ==
    \/ GetMessages
    \/ QueryAnalysis
    \/ ResponseGeneration

SpecHistory == InitHistory /\ [][NextHistory]_vars

\* cleanup: chat requests create sessions and save their query and the keys
\* expire while cleanup_expired_sessions runs again and again
NextCleanup ==
    \/ \E q \in ChatIds : ChatNewSession(q)
    \/ \E q \in ChatIds : ChatAgent(q)
    \/ \E q \in ChatIds : ChatSaveUser(q)
    \/ TTLExpire
    \/ CleanupStart
    \/ CleanupSmembers
    \/ CleanupExists
    \/ CleanupSrem
    \/ CleanupReturn

SpecCleanup == InitSession /\ [][NextCleanup]_vars

\* frame of the delete: both codebases are ingested and have a row; chat
\* requests create sessions for either codebase while Target is deleted
InitFrame ==
    /\ input = [source_type |-> "zip", entries |-> IngestedFiles]
    /\ upPc = "committed"
    /\ row = update_status([create("") EXCEPT !.workflow_id = "ingestion-c1"],
                           "completed", IngestedLocals.files_processed,
                           IngestedLocals.files_total, None)
    /\ upRow = row
    /\ blob = TRUE
    /\ wfPc = "completed"
    /\ wfStatus = StatusAt("u_completed", IngestedLocals, InitialStatus, None)
    /\ wfLocals = IngestedLocals
    /\ wfLog = <<"validate_codebase", "clone_or_extract", "parse_codebase",
                 "scan_for_secrets_activity">>
    /\ act = FreshAttempt
    /\ stale = {}
    /\ faults = 0
    /\ cancelReq = FALSE
    /\ vec = add_chunks(
                add_chunks({}, CodeChunks(Target, all_chunks(IngestedFiles), 1)),
                CodeChunks(OtherCodebase, all_chunks(IngestedFiles),
                           1 + Cardinality(all_chunks(IngestedFiles))))
    /\ nextId = 1 + Cardinality(vec)
    /\ InitDelete
    /\ InitRedis
    /\ retr = NoRetrieval
    /\ proc = NoFile
    /\ hist = NoHistory
    /\ cleanup = NoCleanup
    /\ lim = NoLimiter
    /\ rowOther = update_status([create("") EXCEPT !.workflow_id = "ingestion-c2"],
                                "completed", IngestedLocals.files_processed,
                                IngestedLocals.files_total, None)

NextFrame ==
    \/ \E q \in ChatIds : ChatNewSession(q)
    \/ \E q \in ChatIds : ChatAgent(q)
    \/ \E q \in ChatIds : ChatSaveUser(q)
    \/ TTLExpire
    \/ DelGet
    \/ DelVecGet
    \/ DelVecDelete
    \/ DelVecFail
    \/ DelSessMembers
    \/ DelSessGet
    \/ DelSessPipe
    \/ DelSessIndex
    \/ DelCancel
    \/ DelRow
    \/ DelCommit

SpecFrame == InitFrame /\ [][NextFrame]_vars

\* ------------------------------------------------------------------------
\* Properties
\* ------------------------------------------------------------------------
ChunksOf(c) == {ch \in vec : ch.codebase_id = c}

StatusRank(st) ==
    CASE st = "queued" -> 0
      [] st = "processing" -> 1
      [] OTHER -> 2

\* C1: the status of the Codebase row only moves forward through
\* queued -> processing -> (completed | failed) and never changes once it is
\* completed or failed.
C1_StatusOnlyMovesForward ==
    [][(row # NoRow /\ row' # NoRow) =>
          /\ StatusRank(row.status) <= StatusRank(row'.status)
          /\ row.status \in {"completed", "failed"} => row'.status = row.status]_vars

\* C2: once DELETE /codebase/{c} has answered 204, the vector store holds no
\* chunk of c.
C2_NoChunksAfterDelete ==
    delPc = "resp204" => ChunksOf(Target) = {}

\* C3: no chunk content is stored twice for one codebase, whatever attempts
\* of the activities failed and were retried.
C3_ChunksAddedOnce ==
    \A x, y \in vec :
        (x.codebase_id = y.codebase_id /\ x.content = y.content) => x.id = y.id

\* C5: when the run has ended because a stage failed after its retries, the
\* status record is failed and the Codebase row has status failed and the
\* error message.
C5_FailureIsRecorded ==
    (wfPc = "failed" /\ wfStatus.error = "activity_failed") =>
        /\ wfStatus.step = "failed"
        /\ row # NoRow =>
              /\ row.status = "failed"
              /\ row.error_message = "activity_failed"

Stages == <<"validate_codebase", "clone_or_extract", "parse_codebase",
            "scan_for_secrets_activity">>

C4_MessageCountMatches ==
    \A s \in SessionIds :
        hash[s] # NoKey => Len(msgs[s]) = hash[s].message_count

\* C6: once the delete of c has answered 204, every session created for c is
\* gone (hash and messages) and list_sessions(c) is empty.
C6_SessionsGoneAfterDelete ==
    delPc = "resp204" =>
        /\ \A s \in SessionIds :
              s[1] = Target => hash[s] = NoKey /\ msgs[s] = <<>>
        /\ list_sessions(Target) = {}

\* the messages of a session in the order they were appended
Arrival(s) == [i \in 1..Len(msgs[s]) |-> msgs[s][Len(msgs[s]) + 1 - i]]

\* C9: in every session each user message is directly followed by the
\* assistant message of the same request (it may still be missing only
\* behind the last message), and each assistant message directly follows
\* the user message of its request.
C9_TurnsSerialized ==
    \A s \in SessionIds :
        \A i \in 1..Len(msgs[s]) :
            /\ (Arrival(s)[i].role = "user" /\ i < Len(msgs[s])) =>
                  Arrival(s)[i + 1] = [request |-> Arrival(s)[i].request,
                                       role |-> "assistant"]
            /\ Arrival(s)[i].role = "assistant" =>
                  /\ i > 1
                  /\ Arrival(s)[i - 1] = [request |-> Arrival(s)[i].request,
                                          role |-> "user"]

\* C10: every session key that exists (hash, message list) carries a TTL.
C10_SessionKeysHaveTtl ==
    \A s \in SessionIds :
        /\ hash[s] # NoKey => hash[s].ttl
        /\ msgs[s] # <<>> => msgsTtl[s]

\* C11: whenever delete_codebase reaches its cancel step while the workflow
\* of the codebase has been started and has not finished, it sends a cancel
\* request to the workflow (whether the loaded row says queued or processing).
C11_DeleteCancelsRunningWorkflow ==
    [][(delPc = "cancel" /\ delPc' = "row" /\ wfPc \in AwaitPcs) => cancelReq']_vars

\* C12: a run that a cancel request has ended (the awaited activity raised
\* the cancellation) has a status record with step failed and an error that
\* says it was cancelled.
C12_CancelledRunEndsFailed ==
    (wfPc \in EndPcs /\ (wfPc = "aborted" \/ wfStatus.error = "cancelled")) =>
        /\ wfStatus.step = "failed"
        /\ wfStatus.error = "cancelled"

\* C13: whenever the activity of a status-update step has done its work, the
\* Codebase row (if there is one) mirrors the status record of the workflow:
\* its status is the image of the record's step and its file counters equal
\* the record's.
C13_RowMirrorsStatusRecord ==
    (wfPc \in UpdatePcs /\ act.done /\ row # NoRow) =>
        /\ row.status = db_status(wfStatus.step)
        /\ row.processed_files = wfStatus.files_processed
        /\ row.total_files = wfStatus.files_total

\* C14: the validate activity is attempted exactly once per run: the attempt
\* the workflow awaits at the Validate stage is always the first one.
C14_ValidateAttemptedOnce ==
    wfPc = "validate_codebase" => act.attempt = 1

\* the activities that run has given an explicit retry_policy
PolicyPcs == {"clone_or_extract", "parse_codebase", "scan_for_secrets_activity"}

InFlight == {q \in ChatIds : chat[q].pc = "agent"}

\* C16: at no time are more than max_concurrent query pipelines in flight.
C16_PipelinesWithinLimit ==
    Cardinality(InFlight) <= max_concurrent

\* the chat requests whose event stream has ended
StreamEnded(q) == chat[q].pc \in {"done", "error_stream", "stream_error"}

\* the positions of the events of the given types in the stream of q
Positions(q, types) == {i \in 1..Len(chat[q].events) : chat[q].events[i] \in types}

RetrievalPaths == {"retrieve_code", "retrieve_by_filter", "tool"}

\* C19: every vector-store query that returns chunks returns only chunks of
\* the codebase given as codebase_id, whatever where filter was supplied.
C19_QueryScopedToCodebase ==
    retr.outcome = "ok" =>
        \A ch \in retr.chunks : ch.codebase_id = retr.codebase_id

\* C20: on every retrieval path the top_k dispatched to the vector store lies
\* in 1..max_top_k_results.
C20_TopKClamped ==
    (retr.path \in RetrievalPaths /\ retr.n_results # NoInt) =>
        (1 <= retr.n_results /\ retr.n_results <= max_top_k_results)

\* C21: whenever the codebase is observed completed (row and status record,
\* no delete under way), the chunks_created reported for it equals the number
\* of its chunks in the vector index.
C21_ChunksCreatedMatchesIndex ==
    (row # NoRow /\ row.status = "completed" /\ wfStatus.step = "completed"
       /\ delPc = "idle") =>
        wfStatus.chunks_created = Cardinality(ChunksOf(Target))

\* C22: no stored chunk contains a raw secret that was detected in its file,
\* by the redaction of parse_codebase or by the secret scan of the workflow.
C22_NoDetectedSecretStored ==
    proc.pc = "scanned" =>
        \A m \in proc.detected \cup proc.reported : ~Contains(proc.stored, m)

\* C23: once a delete of the codebase has answered 204, the stored archive
\* file of the codebase no longer exists.
C23_BlobGoneAfterDelete ==
    delPc = "resp204" => ~blob

\* C24: the ingestion of an empty archive passes validation, and when its run
\* has ended without a failed attempt and without a delete it has ended
\* completed with chunks_created = 0, total_files = 0 and progress 1.0.
C24_EmptyArchiveCompletes ==
    (input.source_type = "zip" /\ input.entries = {}) =>
        /\ wfPc = "validate_codebase" => validate_codebase(input)
        /\ (wfPc \in EndPcs /\ faults = 0 /\ delPc = "idle") =>
              /\ wfStatus.step = "completed"
              /\ wfStatus.chunks_created = 0
              /\ wfStatus.files_total = 0
              /\ wfStatus.progress = 100

\* C25: get_messages with limit N returns at most N messages, the most
\* recently appended ones, and the Analyze node loads at most the last 20
\* messages into session_history.
C25_GetMessagesAtMostLimit ==
    /\ (hist.pc = "read" /\ hist.limit # NoInt) =>
          /\ Len(hist.returned) <= hist.limit
          /\ hist.returned = SubSeq(msgs[HistorySession], 1, Len(hist.returned))
    /\ hist.pc = "analysed" => Len(hist.session_history) <= history_limit

\* C26: the history sent to the LLM is the 5 most recently persisted messages
\* of the session (all of them when there are fewer), followed by the query.
C26_LastFiveMessagesSent ==
    hist.pc = "generated" =>
        LET n == Len(hist.messages) - 1
            sent == {hist.messages[i] : i \in 1..n}
            list == msgs[HistorySession]
            k == IF Len(list) < history_slice THEN Len(list) ELSE history_slice
        IN sent = {list[i] : i \in 1..k}

\* C27: a run of cleanup_expired_sessions that follows an earlier run, with
\* no session hash gone since that run started, removes no index entry and
\* returns 0.
C27_CleanupIdempotent ==
    /\ cleanup.undisturbed => (cleanup.count = 0 /\ cleanup.pc # "srem")
    /\ (cleanup.pc = "idle" /\ cleanup.undisturbed) => cleanup.returned[2] = 0

\* a second run has returned 0 after the first one removed an entry
C27_Witness ==
    /\ cleanup.pc = "idle"
    /\ cleanup.runs = 2
    /\ cleanup.undisturbed
    /\ cleanup.returned[1] >= 1
    /\ cleanup.returned[2] = 0

\* what belongs to the codebase that is not deleted: its chunks, its row, its
\* session index and the hashes and message lists of its sessions
SessionsOf(c) == {s \in SessionIds : s[1] = c}

OtherState ==
    <<ChunksOf(OtherCodebase), rowOther, index[OtherCodebase],
      [s \in SessionsOf(OtherCodebase) |-> <<hash[s], msgs[s], msgsTtl[s]>>]>>

\* C28: no step of the delete of Target changes the chunks, the sessions, the
\* session index or the row of the other codebase.
C28_DeleteLeavesOtherCodebases ==
    [][delVars' # delVars => OtherState' = OtherState]_vars

\* the delete has answered 204 and removed what Target had, while the other
\* codebase has its chunks, its row and a session
C28_Witness ==
    /\ delPc = "resp204"
    /\ ChunksOf(Target) = {}
    /\ row = NoRow
    /\ SessionsOf(Target) \cap {chat[q].session_id : q \in ChatIds} # {}
    /\ \A s \in SessionsOf(Target) : hash[s] = NoKey
    /\ ChunksOf(OtherCodebase) # {}
    /\ rowOther # NoRow
    /\ list_sessions(OtherCodebase) # {}

\* C29: a chat request whose query pipeline raised in a node is answered with
\* an error event stream: the request never ends with the exception leaving
\* the handler.
C29_NodeErrorGivesErrorStream ==
    \A q \in ChatIds :
        chat[q].pc # "resp500"

NextDelete ==
    \/ \E q \in ChatIds : ChatNewSession(q)
    \/ \E q \in ChatIds : ChatAgent(q)
    \/ \E q \in ChatIds : ChatSaveUser(q)
    \/ TTLExpire
    \/ DelGet
    \/ DelVecGet
    \/ DelVecDelete
    \/ DelVecFail
    \/ DelSessMembers
    \/ DelSessGet
    \/ DelSessPipe
    \/ DelSessIndex
    \/ DelSessFail
    \/ DelCancel
    \/ DelRow
    \/ DelCommit
    \/ DelAgain

SpecDelete == InitFrame /\ [][NextDelete]_vars

C32_NoSessionForUnknownCodebase ==
    [][/\ \A c \in CodebaseIds :
             (index'[c] \ index[c]) # {} => Table[c] # NoRow
       /\ \A s \in SessionIds :
             (hash[s] = NoKey /\ hash'[s] # NoKey /\ hash'[s].codebase_id # None)
                 => Table[hash'[s].codebase_id] # NoRow]_vars


\* C33: when an add_message of save_conversation_turn runs for a session whose
\* hash does not exist, neither the hash nor the message list of that session
\* exists afterwards.
C33_AddMessageNeverRevives ==
    [][\A q \in ChatIds :
          (/\ chat[q].pc \in {"save_user", "save_assistant"}
           /\ chat'[q].pc \in {"save_assistant", "done"}
           /\ chat'[q].pc # chat[q].pc
           /\ hash[chat[q].session_id] = NoKey)
              => /\ hash'[chat[q].session_id] = NoKey
                 /\ msgs'[chat[q].session_id] = <<>>]_vars


\* chat alone: requests with and without session_id against the ingested
\* codebase while session keys expire
NextChat ==
    \/ \E q \in ChatIds : ChatWithSession(q)
    \/ \E q \in ChatIds : ChatNewSession(q)
    \/ \E q \in ChatIds : ChatAgent(q)
    \/ \E q \in ChatIds : ChatSaveUser(q)
    \/ \E q \in ChatIds : ChatSaveAssistant(q)
    \/ \E q \in ChatIds : ChatSaveFail(q)
    \/ TTLExpire

SpecChat == InitSession /\ [][NextChat]_vars

\* the stored messages of request q with the given role
Persisted(q, role) ==
    {<<s, i>> \in SessionIds \X (1..(2 * MaxChats)) :
        i <= Len(msgs[s]) /\ msgs[s][i] = [request |-> q, role |-> role]}

\* the last event of the stream of q, None for an empty stream
LastEvent(q) ==
    IF chat[q].events = <<>> THEN None ELSE chat[q].events[Len(chat[q].events)]

\* C34: at the moment the stream of a request ends, it ends with done exactly
\* when one user message and one assistant message of the request are stored,
\* and when it ends with error no message of the request is stored.
C34_DoneIffTurnPersisted ==
    [][\A q \in ChatIds :
          (~StreamEnded(q) /\ StreamEnded(q)') =>
              /\ LastEvent(q)' = "done" <=>
                    /\ Cardinality(Persisted(q, "user")') = 1
                    /\ Cardinality(Persisted(q, "assistant")') = 1
              /\ LastEvent(q)' = "error" =>
                    Persisted(q, "user")' \cup Persisted(q, "assistant")' = {}]_vars


\* C35: cleanup_expired_sessions removes an index entry only of a session
\* whose hash does not exist at that moment, also while chat requests create
\* sessions and write messages, and every increment of its count is one
\* entry removed.
C35_CleanupRemovesOnlyDeadEntries ==
    [][(cleanup.pc = "srem" /\ cleanup'.pc # "srem") =>
          /\ \A s \in index[cleanup.key] \ index'[cleanup.key] : hash[s] = NoKey
          /\ cleanup'.count - cleanup.count =
                Cardinality(index[cleanup.key] \ index'[cleanup.key])]_vars


\* C36: the message list of a session never exists without the hash of the
\* session.
C36_NoMessagesWithoutHash ==
    \A s \in SessionIds : msgs[s] # <<>> => hash[s] # NoKey


\* the limiter alone: tasks call acquire and release in any order, on either
\* kind of asyncio.Semaphore
InitLimiter ==
    /\ input = [source_type |-> "zip", entries |-> IngestedFiles]
    /\ upPc = "committed"
    /\ row = update_status([create("") EXCEPT !.workflow_id = "ingestion-c1"],
                           "completed", IngestedLocals.files_processed,
                           IngestedLocals.files_total, None)
    /\ upRow = row
    /\ blob = TRUE
    /\ wfPc = "completed"
    /\ wfStatus = StatusAt("u_completed", IngestedLocals, InitialStatus, None)
    /\ wfLocals = IngestedLocals
    /\ wfLog = <<"validate_codebase", "clone_or_extract", "parse_codebase",
                 "scan_for_secrets_activity">>
    /\ act = FreshAttempt
    /\ stale = {}
    /\ faults = 0
    /\ cancelReq = FALSE
    /\ vec = add_chunks({}, CodeChunks(Target, all_chunks(IngestedFiles), 1))
    /\ nextId = 1 + Cardinality(all_chunks(IngestedFiles))
    /\ InitDelete
    /\ InitRedis
    /\ retr = NoRetrieval
    /\ proc = NoFile
    /\ hist = NoHistory
    /\ cleanup = NoCleanup
    /\ rowOther = NoRow
    /\ \E h \in BOOLEAN : lim = [NoLimiter EXCEPT !.handoff = h]

NextLimiter ==
    \/ \E t \in LimTasks : LimAcquire(t)
    \/ \E t \in LimTasks : LimResume(t)
    \/ \E t \in LimTasks : LimRelease(t)

SpecLimiter == InitLimiter /\ [][NextLimiter]_vars

\* the number of further acquire calls that return without waiting
FreeAcquires ==
    IF lim.handoff /\ lim.waiters # <<>> THEN 0
    ELSE IF lim.value > 0 THEN lim.value ELSE 0

\* C37: after any sequence of acquire and release calls, active_count lies
\* in 0..max_concurrent and available_slots is the number of further acquire
\* calls that succeed without blocking.
C37_LimiterCountsSlots ==
    /\ 0 <= active_count(lim)
    /\ active_count(lim) <= max_concurrent
    /\ available_slots(lim) = FreeAcquires


\* C38: once an upload that had created the Codebase row has been answered
\* with an error, the row exists with status failed and no ingestion workflow
\* is running for it; and no committed row is queued while its workflow was
\* never started.
C38_UploadErrorLeavesFailedRow ==
    /\ upPc = "rolled_back" =>
          /\ row # NoRow
          /\ row.status = "failed"
          /\ wfPc \notin AwaitPcs
    /\ (row # NoRow /\ row.status = "queued") => wfPc # "not_started"

====
